---- MODULE Spec2Model ----
(***************************************************************************)
(* Model of the job-tracker application lifecycle: the ApplicationWorkflow *)
(* (temporal/workflows/application-workflow.ts), the TemporalClient        *)
(* wrapper (lib/temporal-client.ts) and the HTTP routes that drive them    *)
(* (app/api/applications/...).  One application is followed from its       *)
(* creation to the end of its workflow run.                                *)
(*                                                                         *)
(* Time is counted in whole days.  The workflow engine is modelled by its  *)
(* observable contract: one durable timer per sleep, activities that are   *)
(* in flight between their scheduling and their completion, signals that   *)
(* are handed to the workflow one at a time in delivery order, and async   *)
(* handlers that are suspended at their await while other workflow code    *)
(* runs.                                                                   *)
(***************************************************************************)
EXTENDS Integers, Sequences, FiniteSets, TLC

\* ---------------------------------------------------------------- bounds
MaxTime     == 15   \* the clock stops here
MaxLatency  == 1    \* days a workflow task or an activity may be late
MaxRequests == 2    \* operations from outside after creation: HTTP requests
                    \* (status, put, delete), cancelWorkflow signals,
                    \* terminations and restarts of the engine
MaxStarts   == 2    \* calls of startApplicationWorkflow (SpecStart)
MaxEdit     == 6    \* latest deadline of a deadline edit, in parts of a day (SpecPut)
MaxPuts     == 2    \* deadline edits of one application (SpecPut)

\* ------------------------------------------------------ program constants
GraceDays   == 3    \* gracePeriodMs = 3 * 24 * 60 * 60 * 1000
ExtendDays  == 7    \* the deadline edit studied: extendDeadline(7)
NoTime      == -100 \* "undefined" for optional dates
NaNTime     == -200 \* getTime() of an Invalid Date (an unparseable string)
NullArg     == -300 \* a deadline argument that is no Date, string or number

AppId           == "app1"
DeadlineOffsets == {-1, 0, 10}   \* deadline = creation day + offset
InvalidDeadlines == {NaNTime, NullArg}

AppStatuses == {"Active", "Interview", "Offer", "Rejected", "Withdrawn", "Archived"}
WfStatuses  == {"Created", "Active", "Remind", "GracePeriod", "Archived"}
NotifTypes  == {"DeadlineReminder", "StatusUpdate"}

\* the statuses a status request carries: a non-final one the handler
\* reacts to, a final one (the handler only tests membership in the final
\* list), and one the handler ignores
RequestStatuses == {"Interview", "Rejected", "Archived"}

VARIABLES
  now,        \* wall clock, in days
  runs,       \* engine: the workflow executions ever started, oldest first
  pc,         \* position of the main flow of the latest run
  timerAt,    \* day at which the pending sleep() fires
  cancelReq,  \* engine: a cancellation request awaits the workflow
  sigQ,       \* engine: signals delivered and not yet handed to a handler
  hPending,   \* updateStatus handlers suspended at await updateApplicationStatus
  state,      \* the WorkflowState object of the latest run
  row,        \* the Application row
  timeline,   \* TimelineEvent rows, counted per status
  notifs,     \* Notification rows, counted per type
  req,        \* the HTTP request being served, between two of its awaits
  pipe,       \* the resume-extraction and cover-letter pipeline of the application
  act,        \* one activity call under its retry policy, attempt by attempt
  edit,       \* the deadline of the row and of the workflow, in parts of a day
  hist        \* observations used by the properties

vars == <<now, runs, pc, timerAt, cancelReq, sigQ, hPending, state, row,
          timeline, notifs, req, pipe, act, edit, hist>>

\* ---------------------------------------------------------------- helpers
WorkflowIdPerCall(applicationId) == <<"application-workflow", applicationId, Len(runs)>>

\* workflowId = `application-workflow-${applicationId}`
WorkflowIdOf(applicationId) == <<"application-workflow", applicationId>>

NoWorkflowId == <<>>

FinalStatuses == {"Offer", "Rejected", "Withdrawn"}

IsFinalStatus(newStatus) == newStatus \in FinalStatuses

\* the status of the latest execution known to the engine
wfExec == IF runs = <<>> THEN "none" ELSE runs[Len(runs)].status

LiveRuns(wid) == {i \in DOMAIN runs : runs[i].workflowId = wid /\ runs[i].status = "running"}

LiveRunsOf(applicationId) ==
  {i \in DOMAIN runs : runs[i].applicationId = applicationId /\ runs[i].status = "running"}

SetExec(s) == [runs EXCEPT ![Len(runs)].status = s]

NewState(deadline) ==
  [status |-> "Created", deadline |-> deadline, originalDeadline |-> deadline,
   gracePeriodEnd |-> NoTime, lastStatusUpdate |-> "none", cancelled |-> FALSE,
   updatedAt |-> NoTime]

NoReq == [kind |-> "none", status |-> "none", days |-> 0, live |-> FALSE]

Bump(f, k) == [f EXCEPT ![k] = @ + 1]


\* what the updateStatus handler leaves in state.status once its activity
\* has completed
StatusAfterUpdate(cur, newStatus) ==
  IF IsFinalStatus(newStatus) THEN "Archived"
  ELSE IF newStatus = "Interview" THEN "Active"
  ELSE cur

ValidDeadlineUnchecked(deadline) == TRUE

\* the deadline argument passes the type test and the isNaN test
ValidDeadline(deadline) == deadline \notin {NullArg, NaNTime}

TimeUntilDeadlineOffByOne(st, t) == st.deadline - t + 1

\* timeUntilDeadline = state.deadline.getTime() - now.getTime()
TimeUntilDeadline(st, t) == st.deadline - t

NeedsWaitOrZero(timeUntilDeadline) == timeUntilDeadline >= 0

\* if (timeUntilDeadline > 0) await sleep(timeUntilDeadline)
NeedsWait(timeUntilDeadline) == timeUntilDeadline > 0

DeadlineCheckAfterUpdate(st) ==
  ~(st.cancelled \/ st.status # "Active" \/ st.lastStatusUpdate # "none")

\* the check after the deadline wait
DeadlineCheckPasses(st) == ~(st.cancelled \/ st.status # "Active")

GraceCheckNoFlag(st) == ~(st.status = "Archived")

GraceCheckFlagOnly(st) == ~st.cancelled

GraceCheckOnRemind(st) == ~(st.cancelled \/ st.status # "Remind")

\* the check after the grace-period wait
GraceCheckPasses(st) == ~(st.cancelled \/ st.status # "GracePeriod")

\* engine: a second start under a workflowId that is running is refused
\* (WorkflowExecutionAlreadyStartedError); startApplicationWorkflow then
\* returns a handle to the run that exists
StartOutcome(wid) == IF LiveRuns(wid) # {} THEN "existing" ELSE "new"

RunsAfterStart(applicationId, wid) ==
  IF StartOutcome(wid) = "existing" THEN runs
  ELSE Append(runs, [workflowId |-> wid, applicationId |-> applicationId,
                     status |-> "running"])

\* engine: describe() finds every execution it still has a record of,
\* closed ones included
workflowExists == wfExec # "none"

\* engine: a signal or a cancel request is accepted by a running execution
\* only; for any other the client call throws
SignalAccepted == wfExec = "running"

RemoveAt(seq, i) == [j \in 1..(Len(seq) - 1) |-> IF j < i THEN seq[j] ELSE seq[j + 1]]

TimerArmed == wfExec = "running" /\ pc \in {"sleepDeadline", "sleepGrace"}

TimerDue == TimerArmed /\ timerAt <= now

InitHist ==
  [createdAt |-> NoTime, startAt |-> NoTime, nStarts |-> 0, lastStart |-> "none",
   nReq |-> 0, nSig |-> 0, nAdm |-> 0, initialized |-> FALSE,
   reminderCalls |-> 0, archiveCalls |-> 0, catchArchiveCalls |-> 0,
   remindAt |-> NoTime, reminderDoneAt |-> NoTime, archiveAt |-> NoTime,
   deadlineAtRemind |-> NoTime, failed |-> FALSE, disturbed |-> FALSE,
   ivWaiting |-> FALSE, extWaiting |-> FALSE, termHandled |-> FALSE,
   ivLate |-> FALSE, cancelRepeat |-> FALSE, cancelFresh |-> FALSE, rejectedEarly |-> FALSE,
   extSum |-> 0]

\* the pipeline before the application is created: the two status columns
\* have their default Pending, no request is being served, no workflow has been started
InitPipe ==
  [post |-> "none", response |-> "none",
   resumeStatus |-> "Pending", coverStatus |-> "Pending", coverUrl |-> FALSE,
   lifecycle |-> "none", routeFailedAt |-> "none",
   rexec |-> "none", rpc |-> "none", rsteps |-> <<>>, rfailedAt |-> "none",
   triggerCalls |-> 0, rstarts |-> 0,
   cexec |-> "none", cpc |-> "none", cwrites |-> <<>>, cfailedAt |-> "none", cstarts |-> 0,
   cerr |-> "none", rcatchWrote |-> FALSE,
   nCompleted |-> 0, nFailed |-> 0]

\* no application whose deadline could be edited
NoEdit ==
  [phase |-> "none", rowDeadline |-> 0, wfDeadline |-> 0, days |-> 0,
   equalBefore |-> FALSE, nPuts |-> 0]

\* no activity call has been scheduled
IdleAct ==
  [name |-> "none", phase |-> "idle", attempt |-> 0, elapsed |-> 0, waits |-> <<>>,
   failures |-> 0, result |-> "none",
   gPhase |-> "none", gAttempt |-> 0, gElapsed |-> 0, gWaits |-> <<>>, gCalls |-> 0,
   gCallsInAttempt |-> 0, gLastError |-> 0, gThrown |-> 0, gWaitAfterLast |-> FALSE]

Init ==
  /\ now = 0
  /\ runs = <<>>
  /\ pc = "none"
  /\ timerAt = NoTime
  /\ cancelReq = FALSE
  /\ sigQ = <<>>
  /\ hPending = <<>>
  /\ state = NewState(NoTime)
  /\ row = [exists |-> FALSE, status |-> "Active", deadline |-> NoTime,
            workflowId |-> NoWorkflowId]
  /\ timeline = [s \in AppStatuses |-> 0]
  /\ notifs = [t \in NotifTypes |-> 0]
  /\ req = NoReq
  /\ pipe = InitPipe
  /\ act = IdleAct
  /\ edit = NoEdit
  /\ hist = InitHist

\* ------------------------------------------------------------- the clock
\* A due timer fires before the day ends.  While a sleep is pending the
\* clock moves to the day it fires.  The first workflow task and an
\* activity may take up to MaxLatency days; an HTTP request is served
\* within the day.
Late(since) == now - since < MaxLatency

Tick ==
  /\ UNCHANGED <<pipe, act, edit>>
  /\ wfExec = "running"
  /\ ~TimerDue
  /\ req.kind = "none"
  /\ \A i \in DOMAIN hPending : Late(hPending[i].at)
  /\ \/ TimerArmed /\ now' = timerAt
     \/ pc = "init" /\ Late(hist.createdAt) /\ now' = now + 1
     \/ pc = "reminder" /\ Late(hist.remindAt) /\ now' = now + 1
  /\ now' <= MaxTime
  /\ UNCHANGED <<runs, pc, timerAt, cancelReq, sigQ, hPending, state, row,
                 timeline, notifs, req, hist>>

\* ------------------------------------------- POST /api/applications
\* createApplication, startApplicationWorkflow, setWorkflowId.  A failed
\* start is logged and the row keeps workflowId = null.
\* what the creation request saw of the lifecycle start and of setWorkflowId
LifecycleOutcome(startOk, setIdOk) ==
  IF ~startOk THEN "startFailed" ELSE IF ~setIdOk THEN "setIdFailed" ELSE "ok"

\* the variables of the lifecycle workflow and its controllers
lifecycleVars == <<now, runs, pc, timerAt, cancelReq, sigQ, hPending, state, row,
                   timeline, notifs, req, act, edit, hist>>

\* the resumeExtractionStatus column is overwritten with the given value
updateResumeExtractionStatus(p, status) == [p EXCEPT !.resumeStatus = status]

\* the coverLetterGenerationStatus column is overwritten with the given value
updateCoverLetterStatus(p, status) == [p EXCEPT !.coverStatus = status]

\* client.workflow.start('ResumeExtractionWorkflow', workflowId resume-extraction-<id>):
\* a new run starts unless one is open (WorkflowExecutionAlreadyStarted returns its handle)
startResumeExtractionWorkflow(p) ==
  IF p.rexec = "running" THEN p
  ELSE [p EXCEPT !.rexec = "running", !.rpc = "setProcessing", !.rstarts = @ + 1,
                 !.rsteps = <<>>, !.rfailedAt = "none"]

\* client.workflow.start('CoverLetterGenerationWorkflow', workflowId cover-letter-<id>)
startCoverLetterWorkflow(p) ==
  IF p.cexec = "running" THEN p
  ELSE [p EXCEPT !.cexec = "running", !.cpc = "setProcessing", !.cstarts = @ + 1,
                 !.cwrites = <<>>, !.cfailedAt = "none", !.nCompleted = 0, !.nFailed = 0]

PostApplications(off, createOk, startOk, setIdOk, hasResume) ==
  /\ ~row.exists
  /\ req.kind = "none"
  /\ IF ~createOk
       THEN \* createApplication rejects: the outer catch answers 500
            /\ pipe' = [InitPipe EXCEPT !.post = "done", !.response = "500"]
            /\ UNCHANGED <<row, runs, pc, state, hist>>
       ELSE /\ row' = [exists |-> TRUE, status |-> "Active", deadline |-> now + off,
                       workflowId |-> IF startOk /\ setIdOk
                                        THEN WorkflowIdOf(AppId) ELSE NoWorkflowId]
            /\ IF startOk
                 THEN /\ runs' = RunsAfterStart(AppId, WorkflowIdOf(AppId))
                      /\ pc' = "init"
                      /\ state' = NewState(now + off)
                      /\ hist' = [hist EXCEPT !.nStarts = @ + 1, !.createdAt = now,
                                              !.lastStart = StartOutcome(WorkflowIdOf(AppId))]
                 ELSE /\ UNCHANGED <<runs, pc, state>>
                      /\ hist' = [hist EXCEPT !.nStarts = @ + 1, !.lastStart = "error"]
            /\ pipe' = IF hasResume
                         THEN [InitPipe EXCEPT !.post = "startResume",
                                               !.lifecycle = LifecycleOutcome(startOk, setIdOk)]
                         ELSE [InitPipe EXCEPT !.post = "done", !.response = "201",
                                               !.lifecycle = LifecycleOutcome(startOk, setIdOk)]
  /\ UNCHANGED <<now, timerAt, cancelReq, sigQ, hPending, timeline, notifs, req, act, edit>>

\* a creation request without resume, against a working database
PostCreate(off, startOk) == PostApplications(off, TRUE, startOk, TRUE, FALSE)

\* const resumeWorkflowHandle = await TemporalClient.startResumeExtractionWorkflow(...)
PostStartResume(ok) ==
  /\ pipe.post = "startResume"
  /\ pipe' = IF ok THEN [startResumeExtractionWorkflow(pipe) EXCEPT !.post = "markProcessing"]
                   ELSE [pipe EXCEPT !.post = "markFailed", !.routeFailedAt = "startResume"]
  /\ UNCHANGED lifecycleVars

\* await ApplicationService.updateResumeExtractionStatus(id, 'Processing', workflowId)
PostMarkProcessing(ok) ==
  /\ pipe.post = "markProcessing"
  /\ pipe' = IF ok THEN [updateResumeExtractionStatus(pipe, "Processing") EXCEPT !.post = "markPending"]
                   ELSE [pipe EXCEPT !.post = "markFailed", !.routeFailedAt = "markProcessing"]
  /\ UNCHANGED lifecycleVars

\* await ApplicationService.updateCoverLetterGenerationStatus(id, 'Pending')
PostMarkPending(ok) ==
  /\ pipe.post = "markPending"
  /\ pipe' = IF ok THEN [updateCoverLetterStatus(pipe, "Pending") EXCEPT !.post = "done", !.response = "201"]
                   ELSE [pipe EXCEPT !.post = "markFailed", !.routeFailedAt = "markPending"]
  /\ UNCHANGED lifecycleVars

\* catch (resumeError): await ApplicationService.updateResumeExtractionStatus(id, 'Failed');
\* the await is not guarded, so a rejection reaches the outer catch, which answers 500
PostMarkFailed(ok) ==
  /\ pipe.post = "markFailed"
  /\ pipe' = IF ok THEN [updateResumeExtractionStatus(pipe, "Failed") EXCEPT !.post = "done", !.response = "201"]
                   ELSE [pipe EXCEPT !.post = "done", !.response = "500"]
  /\ UNCHANGED lifecycleVars


\* ------------------------------------------------ ApplicationWorkflow
\* return from the main flow: the run completes
WfReturn(st, h) ==
  /\ state' = st
  /\ runs' = SetExec("completed")
  /\ pc' = "ended"
  /\ timerAt' = NoTime
  /\ cancelReq' = FALSE
  /\ sigQ' = <<>>
  /\ hist' = h

\* the code after the deadline wait: re-check, then Remind and the call of
\* sendDeadlineReminder
AfterDeadlineWait(st, h) ==
  IF DeadlineCheckPasses(st)
    THEN /\ state' = [st EXCEPT !.status = "Remind", !.updatedAt = now]
         /\ pc' = "reminder"
         /\ timerAt' = NoTime
         /\ hist' = [h EXCEPT !.reminderCalls = @ + 1, !.remindAt = now,
                              !.deadlineAtRemind = st.deadline]
         /\ UNCHANGED <<runs, cancelReq, sigQ>>
    ELSE WfReturn(st, h)

\* first workflow task: validation of the deadline argument, then the state
\* object, the handlers, Active and the deadline sleep.  The Error thrown
\* for an invalid deadline is no Temporal failure: the workflow task fails
\* and the engine retries it, to the same effect, while the run stays open.
WfStart ==
  /\ UNCHANGED <<pipe, act, edit>>
  /\ wfExec = "running"
  /\ pc = "init"
  /\ LET st == [state EXCEPT !.status = "Active", !.updatedAt = now]
         h  == [hist EXCEPT !.startAt = now, !.initialized = TRUE]
         timeUntilDeadline == TimeUntilDeadline(st, now)
     IN IF ~ValidDeadline(state.deadline)
          THEN /\ pc' = "initFailed"
               /\ UNCHANGED <<state, timerAt, hist, runs, cancelReq, sigQ>>
          ELSE IF NeedsWait(timeUntilDeadline)
                 THEN /\ state' = st
                      /\ pc' = "sleepDeadline"
                      /\ timerAt' = now + timeUntilDeadline
                      /\ hist' = h
                      /\ UNCHANGED <<runs, cancelReq, sigQ>>
                 ELSE AfterDeadlineWait(st, h)
  /\ UNCHANGED <<now, hPending, row, timeline, notifs, req>>

\* sleep(timeUntilDeadline) resolves
WfDeadlineTimer ==
  /\ UNCHANGED <<pipe, act, edit>>
  /\ wfExec = "running"
  /\ pc = "sleepDeadline"
  /\ now >= timerAt
  /\ AfterDeadlineWait(state, hist)
  /\ UNCHANGED <<now, hPending, row, timeline, notifs, req>>

\* sendDeadlineReminder completes: the notification exists, the grace
\* period starts
ReminderOk ==
  /\ UNCHANGED <<pipe, act, edit>>
  /\ wfExec = "running"
  /\ pc = "reminder"
  /\ notifs' = Bump(notifs, "DeadlineReminder")
  /\ state' = [state EXCEPT !.gracePeriodEnd = now + GraceDays, !.status = "GracePeriod",
                            !.updatedAt = now]
  /\ pc' = "sleepGrace"
  /\ timerAt' = now + GraceDays
  /\ hist' = [hist EXCEPT !.reminderDoneAt = now]
  /\ UNCHANGED <<now, runs, cancelReq, sigQ, hPending, row, timeline, req>>

\* the catch block: Archived, then one archiveApplication call
EnterCatch ==
  /\ state' = [state EXCEPT !.status = "Archived", !.updatedAt = now]
  /\ pc' = "catchArchive"
  /\ timerAt' = NoTime
  /\ hist' = [hist EXCEPT !.catchArchiveCalls = @ + 1, !.failed = TRUE]

\* sendDeadlineReminder fails for the last time
ReminderFail ==
  /\ UNCHANGED <<pipe, act, edit>>
  /\ wfExec = "running"
  /\ pc = "reminder"
  /\ EnterCatch
  /\ UNCHANGED <<now, runs, cancelReq, sigQ, hPending, row, timeline, notifs, req>>

\* sleep(gracePeriodMs) resolves: re-check, then Archived and the call of
\* archiveApplication
WfGraceTimer ==
  /\ UNCHANGED <<pipe, act, edit>>
  /\ wfExec = "running"
  /\ pc = "sleepGrace"
  /\ now >= timerAt
  /\ IF GraceCheckPasses(state)
       THEN /\ state' = [state EXCEPT !.status = "Archived", !.updatedAt = now]
            /\ pc' = "archive"
            /\ timerAt' = NoTime
            /\ hist' = [hist EXCEPT !.archiveCalls = @ + 1, !.archiveAt = now]
            /\ UNCHANGED <<runs, cancelReq, sigQ>>
       ELSE WfReturn(state, hist)
  /\ UNCHANGED <<now, hPending, row, timeline, notifs, req>>

\* ApplicationService.archiveApplication: the row and one TimelineEvent
ArchiveRow ==
  /\ row' = [row EXCEPT !.status = "Archived"]
  /\ timeline' = Bump(timeline, "Archived")

\* archiveApplication (timer path) completes; the main flow returns
ArchiveOk ==
  /\ UNCHANGED <<pipe, act, edit>>
  /\ wfExec = "running"
  /\ pc = "archive"
  /\ ArchiveRow
  /\ WfReturn(state, hist)
  /\ UNCHANGED <<now, hPending, notifs, req>>

ArchiveFail ==
  /\ UNCHANGED <<pipe, act, edit>>
  /\ wfExec = "running"
  /\ pc = "archive"
  /\ EnterCatch
  /\ UNCHANGED <<now, runs, cancelReq, sigQ, hPending, row, timeline, notifs, req>>

\* the run ends with the error the catch block re-throws
WfThrow(result) ==
  /\ runs' = SetExec(result)
  /\ pc' = "ended"
  /\ timerAt' = NoTime
  /\ cancelReq' = FALSE
  /\ sigQ' = <<>>

\* the best-effort archiveApplication of the catch block completes or
\* fails (logged); either way the original error is re-thrown
CatchArchiveDone(ok) ==
  /\ UNCHANGED <<pipe, act, edit>>
  /\ wfExec = "running"
  /\ pc = "catchArchive"
  /\ IF ok THEN ArchiveRow ELSE UNCHANGED <<row, timeline>>
  /\ WfThrow("failed")
  /\ UNCHANGED <<now, hPending, state, notifs, req, hist>>


\* ----------------------------------------------------- signal handlers
extendDeadlineFromNow(st, days) == [st EXCEPT !.deadline = now + days, !.updatedAt = now]

\* const newDeadline = new Date(state.deadline.getTime() + days * 24 * 60 * 60 * 1000);
\* state.deadline = newDeadline; state.updatedAt = new Date()
extendDeadline(st, days) == [st EXCEPT !.deadline = @ + days, !.updatedAt = now]

\* The engine hands the oldest delivered signal to its handler.  The
\* handler runs to its first await: updateStatus stops at the call of
\* updateApplicationStatus, the other two run to their end.
WfHandleSignal ==
  /\ UNCHANGED <<pipe, act, edit>>
  /\ wfExec = "running"
  /\ pc \notin {"init", "initFailed", "ended"}
  /\ sigQ # <<>>
  /\ LET sig == Head(sigQ)
     IN CASE sig.name = "updateStatus" ->
               /\ state' = [state EXCEPT !.lastStatusUpdate = sig.status, !.updatedAt = now]
               /\ hPending' = Append(hPending, [status |-> sig.status, at |-> now])
               /\ hist' = hist
          [] sig.name = "extendDeadline" ->
               /\ state' = extendDeadline(state, sig.days)
               /\ hPending' = hPending
               /\ hist' = [hist EXCEPT !.extSum = @ + sig.days, !.extWaiting =
                             @ \/ (pc = "sleepDeadline" /\ state.status = "Active")]
          [] sig.name = "cancelWorkflow" ->
               /\ state' = [state EXCEPT !.cancelled = TRUE, !.status = "Archived",
                                         !.updatedAt = now]
               /\ hPending' = hPending
               /\ hist' = [hist EXCEPT !.cancelRepeat =
                             @ \/ state.cancelled \/ state.status = "Archived",
                                       !.cancelFresh = @ \/ state.status # "Archived"]
  /\ sigQ' = Tail(sigQ)
  /\ UNCHANGED <<now, runs, pc, timerAt, cancelReq, row, timeline, notifs, req>>

\* ApplicationService.updateStatus: the row and one TimelineEvent
UpdateStatusRow(s) ==
  /\ row' = [row EXCEPT !.status = s]
  /\ timeline' = Bump(timeline, s)

\* updateApplicationStatus of the i-th suspended handler completes and the
\* handler runs to its end.  An activity that was in flight when the run
\* closed still writes the row.
HandlerActivityOk(i) ==
  /\ UNCHANGED <<pipe, act, edit>>
  /\ i \in DOMAIN hPending
  /\ UpdateStatusRow(hPending[i].status)
  /\ notifs' = Bump(notifs, "StatusUpdate")
  /\ hPending' = RemoveAt(hPending, i)
  /\ IF wfExec = "running"
       THEN /\ state' = [state EXCEPT !.status = StatusAfterUpdate(@, hPending[i].status)]
            /\ hist' = [hist EXCEPT
                  !.termHandled = @ \/ IsFinalStatus(hPending[i].status),
                  !.ivLate = @ \/ (hPending[i].status = "Interview"
                                    /\ state.status \in {"Remind", "GracePeriod"}),
                  !.ivWaiting = @ \/ (hPending[i].status = "Interview"
                                       /\ pc = "sleepDeadline" /\ state.status = "Active")]
       ELSE UNCHANGED <<state, hist>>
  /\ UNCHANGED <<now, runs, pc, timerAt, cancelReq, sigQ, req>>

\* updateApplicationStatus fails for the last time: the handler rejects
\* outside the try block of the main flow and the run fails
HandlerActivityFail(i) ==
  /\ UNCHANGED <<pipe, act, edit>>
  /\ i \in DOMAIN hPending
  /\ wfExec = "running"
  /\ hPending' = RemoveAt(hPending, i)
  /\ WfThrow("failed")
  /\ hist' = [hist EXCEPT !.failed = TRUE]
  /\ UNCHANGED <<now, state, row, timeline, notifs, req>>

\* handle.cancel(): the pending await of the main flow rejects, the catch
\* block sets Archived, its archiveApplication call is refused in the
\* cancelled scope, the error is re-thrown.  An activity that was in
\* flight may have run already.
WfCancelRequested(ran) ==
  /\ UNCHANGED <<pipe, act, edit>>
  /\ wfExec = "running"
  /\ cancelReq
  /\ pc \in {"sleepDeadline", "reminder", "sleepGrace", "archive", "catchArchive"}
  /\ state' = [state EXCEPT !.status = "Archived", !.updatedAt = now]
  /\ CASE pc = "reminder" /\ ran ->
             /\ notifs' = Bump(notifs, "DeadlineReminder")
             /\ UNCHANGED <<row, timeline>>
       [] pc \in {"archive", "catchArchive"} /\ ran ->
             /\ ArchiveRow
             /\ notifs' = notifs
       [] OTHER -> UNCHANGED <<row, timeline, notifs>>
  /\ WfThrow(IF pc = "catchArchive" THEN "failed" ELSE "cancelled")
  /\ UNCHANGED <<now, hPending, req, hist>>

\* ------------------------------------------------- engine, from outside
\* a client sends the cancelWorkflow signal
SendCancelSignal ==
  /\ UNCHANGED <<pipe, act, edit>>
  /\ SignalAccepted
  /\ hist.nReq + hist.nSig + hist.nAdm < MaxRequests
  /\ sigQ' = Append(sigQ, [name |-> "cancelWorkflow", status |-> "none", days |-> 0])
  /\ hist' = [hist EXCEPT !.nSig = @ + 1]
  /\ UNCHANGED <<now, runs, pc, timerAt, cancelReq, hPending, state, row,
                 timeline, notifs, req>>

\* TemporalClient.terminateWorkflow
TerminateWorkflow ==
  /\ UNCHANGED <<pipe, act, edit>>
  /\ wfExec = "running"
  /\ hist.nReq + hist.nSig + hist.nAdm < MaxRequests
  /\ WfThrow("terminated")
  /\ hist' = [hist EXCEPT !.disturbed = TRUE, !.nAdm = @ + 1]
  /\ UNCHANGED <<now, hPending, state, row, timeline, notifs, req>>

\* the development server (temporal server start-dev) is restarted and
\* keeps no record of its executions
EngineReset ==
  /\ UNCHANGED <<pipe, act, edit>>
  /\ runs # <<>>
  /\ hist.nReq + hist.nSig + hist.nAdm < MaxRequests
  /\ runs' = <<>>
  /\ pc' = "ended"
  /\ timerAt' = NoTime
  /\ cancelReq' = FALSE
  /\ sigQ' = <<>>
  /\ hist' = [hist EXCEPT !.disturbed = TRUE, !.nAdm = @ + 1]
  /\ UNCHANGED <<now, hPending, state, row, timeline, notifs, req>>


\* ------------------------------------- POST /api/applications/[id]/status
\* ApplicationService.updateStatus, then TemporalClient.updateStatus up to
\* its workflowExists check; a workflow that is not found clears the
\* row's workflowId
PostStatusBegin(s) ==
  /\ UNCHANGED <<pipe, act, edit>>
  /\ row.exists
  /\ req.kind = "none"
  /\ hist.nReq + hist.nSig + hist.nAdm < MaxRequests
  /\ timeline' = Bump(timeline, s)
  /\ IF row.workflowId = NoWorkflowId
       THEN /\ row' = [row EXCEPT !.status = s]
            /\ req' = NoReq
       ELSE IF workflowExists
              THEN /\ row' = [row EXCEPT !.status = s]
                   /\ req' = [kind |-> "status", status |-> s, days |-> 0,
                                 live |-> SignalAccepted]
              ELSE /\ row' = [row EXCEPT !.status = s, !.workflowId = NoWorkflowId]
                   /\ req' = NoReq
  /\ hist' = [hist EXCEPT !.nReq = @ + 1,
                          !.rejectedEarly = @ \/ (s = "Rejected" /\ hist.nReq + hist.nSig = 0
                               /\ wfExec = "running" /\ pc \in {"init", "sleepDeadline"}
                               /\ now < state.originalDeadline)]
  /\ UNCHANGED <<now, runs, pc, timerAt, cancelReq, sigQ, hPending, state, notifs>>

\* signalWorkflow(workflowId, 'updateStatus'); when it throws the route
\* logs the error and answers with success
PostStatusSignal ==
  /\ UNCHANGED <<pipe, act, edit>>
  /\ req.kind = "status"
  /\ IF SignalAccepted
       THEN sigQ' = Append(sigQ, [name |-> "updateStatus", status |-> req.status, days |-> 0])
       ELSE sigQ' = sigQ
  /\ req' = NoReq
  /\ UNCHANGED <<now, runs, pc, timerAt, cancelReq, hPending, state, row,
                 timeline, notifs, hist>>

\* ------------------------------------------- PUT /api/applications/[id]
\* ApplicationService.updateApplication with a new deadline, then
\* TemporalClient.extendDeadline up to its workflowExists check.  days is
\* the difference of the two deadlines in days, rounded up; deadlines are
\* whole days here.
PutBegin(d) ==
  /\ UNCHANGED <<pipe, act, edit>>
  /\ row.exists
  /\ req.kind = "none"
  /\ hist.nReq + hist.nSig + hist.nAdm < MaxRequests
  /\ LET newDeadline == row.deadline + d
         days == newDeadline - row.deadline
     IN IF row.workflowId = NoWorkflowId
          THEN /\ row' = [row EXCEPT !.deadline = newDeadline]
               /\ req' = NoReq
          ELSE IF workflowExists
                 THEN /\ row' = [row EXCEPT !.deadline = newDeadline]
                      /\ req' = [kind |-> "put", status |-> "none", days |-> days,
                                    live |-> SignalAccepted]
                 ELSE /\ row' = [row EXCEPT !.deadline = newDeadline,
                                            !.workflowId = NoWorkflowId]
                      /\ req' = NoReq
  /\ hist' = [hist EXCEPT !.nReq = @ + 1]
  /\ UNCHANGED <<now, runs, pc, timerAt, cancelReq, sigQ, hPending, state,
                 timeline, notifs>>

\* signalWorkflow(workflowId, 'extendDeadline')
PutSignal ==
  /\ UNCHANGED <<pipe, act, edit>>
  /\ req.kind = "put"
  /\ IF SignalAccepted
       THEN sigQ' = Append(sigQ, [name |-> "extendDeadline", status |-> "none", days |-> req.days])
       ELSE sigQ' = sigQ
  /\ req' = NoReq
  /\ UNCHANGED <<now, runs, pc, timerAt, cancelReq, hPending, state, row,
                 timeline, notifs, hist>>

\* ---------------------------------------- DELETE /api/applications/[id]
\* TemporalClient.cancelWorkflow up to its workflowExists check; without a
\* workflow to cancel the row is archived at once
DeleteBegin ==
  /\ UNCHANGED <<pipe, act, edit>>
  /\ row.exists
  /\ req.kind = "none"
  /\ hist.nReq + hist.nSig + hist.nAdm < MaxRequests
  /\ IF row.workflowId # NoWorkflowId /\ workflowExists
       THEN /\ req' = [kind |-> "delete", status |-> "none", days |-> 0,
                          live |-> SignalAccepted]
            /\ UNCHANGED <<row, timeline>>
       ELSE /\ req' = NoReq
            /\ ArchiveRow
  /\ hist' = [hist EXCEPT !.nReq = @ + 1]
  /\ UNCHANGED <<now, runs, pc, timerAt, cancelReq, sigQ, hPending, state, notifs>>

\* handle.cancel() (an error is logged), then
\* ApplicationService.archiveApplication
DeleteCancel ==
  /\ UNCHANGED <<pipe, act, edit>>
  /\ req.kind = "delete"
  /\ cancelReq' = (cancelReq \/ SignalAccepted)
  /\ ArchiveRow
  /\ req' = NoReq
  /\ UNCHANGED <<now, runs, pc, timerAt, sigQ, hPending, state, notifs, hist>>

\* ------------------------------------------------------- specification
Next ==
  \/ Tick
  \/ \E off \in DeadlineOffsets, startOk \in BOOLEAN : PostCreate(off, startOk)
  \/ WfStart
  \/ WfDeadlineTimer
  \/ ReminderOk
  \/ ReminderFail
  \/ WfGraceTimer
  \/ ArchiveOk
  \/ ArchiveFail
  \/ \E ok \in BOOLEAN : CatchArchiveDone(ok)
  \/ WfHandleSignal
  \/ \E i \in 1..MaxRequests : HandlerActivityOk(i)
  \/ \E i \in 1..MaxRequests : HandlerActivityFail(i)
  \/ \E ran \in BOOLEAN : WfCancelRequested(ran)
  \/ SendCancelSignal
  \/ TerminateWorkflow
  \/ EngineReset
  \/ \E s \in RequestStatuses : PostStatusBegin(s)
  \/ PostStatusSignal
  \/ PutBegin(ExtendDays)
  \/ PutSignal
  \/ DeleteBegin
  \/ DeleteCancel

Spec == Init /\ [][Next]_vars


\* ------------------------------------- a second startApplicationWorkflow
\* TemporalClient.startApplicationWorkflow called for an application that
\* has its row: a new run when none is running, the existing handle when
\* one is, the error re-thrown when the engine cannot be reached
StartApplicationWorkflow(deadline, startOk) ==
  /\ UNCHANGED <<pipe, act, edit>>
  /\ row.exists
  /\ req.kind = "none"
  /\ hist.nStarts < MaxStarts
  /\ LET wid == WorkflowIdOf(AppId)
     IN IF startOk /\ StartOutcome(wid) = "new"
          THEN /\ runs' = RunsAfterStart(AppId, wid)
               /\ pc' = "init"
               /\ state' = NewState(deadline)
               /\ timerAt' = NoTime
               /\ cancelReq' = FALSE
               /\ sigQ' = <<>>
               /\ hPending' = <<>>
               /\ hist' = [InitHist EXCEPT !.nStarts = hist.nStarts + 1, !.createdAt = now,
                                           !.lastStart = "new", !.nReq = hist.nReq,
                                           !.nSig = hist.nSig, !.nAdm = hist.nAdm]
          ELSE /\ hist' = [hist EXCEPT !.nStarts = @ + 1,
                                       !.lastStart = IF startOk THEN "existing" ELSE "error"]
               /\ UNCHANGED <<runs, pc, state, timerAt, cancelReq, sigQ, hPending>>
  /\ UNCHANGED <<now, row, timeline, notifs, req>>

\* called again with the deadline of the row
DuplicateStart(startOk) == StartApplicationWorkflow(row.deadline, startOk)

\* called with a deadline that is no date: an unparseable string, or the
\* null an Invalid Date is serialised to
StartInvalid(deadline) == StartApplicationWorkflow(deadline, TRUE)

\* the runs of one application under repeated starts: creation, the main
\* flow, cancellation by signal, termination, loss of the engine's records
NextStart ==
  \/ Tick
  \/ \E off \in DeadlineOffsets, startOk \in BOOLEAN : PostCreate(off, startOk)
  \/ \E startOk \in BOOLEAN : DuplicateStart(startOk)
  \/ \E d \in InvalidDeadlines : StartInvalid(d)
  \/ WfStart
  \/ WfDeadlineTimer
  \/ ReminderOk
  \/ ReminderFail
  \/ WfGraceTimer
  \/ ArchiveOk
  \/ ArchiveFail
  \/ \E ok \in BOOLEAN : CatchArchiveDone(ok)
  \/ SendCancelSignal
  \/ WfHandleSignal
  \/ TerminateWorkflow
  \/ EngineReset

SpecStart == Init /\ [][NextStart]_vars

\* ---------------------------------------------------------------------------
\* ResumeExtractionWorkflow: one action per awaited activity call; ok is the
\* outcome after the retry policy (FALSE: the attempts are exhausted and the
\* ActivityFailure is thrown into the try block)
\* ---------------------------------------------------------------------------
ResumeStepsCompletedFirst == <<"setProcessing", "download", "extract", "setCompleted", "persist", "trigger">>

\* the awaited calls of the try block, in program order
ResumeSteps == <<"setProcessing", "download", "extract", "persist", "setCompleted", "trigger">>

\* the step after a successful one; after the last one the function returns
NextResumeStep(step) ==
  IF step = "trigger" THEN "return"
  ELSE ResumeSteps[(CHOOSE i \in 1..Len(ResumeSteps) : ResumeSteps[i] = step) + 1]

\* an awaited activity of the try block: success moves on, failure enters the catch
ResumeCall(step, ok, effect) ==
  /\ pipe.rexec = "running"
  /\ pipe.rpc = step
  /\ pipe' = IF ok
               THEN [effect EXCEPT !.rsteps = Append(@, step),
                                   !.rpc = IF NextResumeStep(step) = "return" THEN "done"
                                           ELSE NextResumeStep(step),
                                   !.rexec = IF NextResumeStep(step) = "return" THEN "completed"
                                             ELSE @]
               ELSE [pipe EXCEPT !.rsteps = Append(@, step), !.rfailedAt = step,
                                 !.rpc = "setFailed"]
  /\ UNCHANGED lifecycleVars

\* await updateResumeExtractionStatus(applicationId, 'Processing')
ResumeSetProcessing(ok) ==
  ResumeCall("setProcessing", ok, updateResumeExtractionStatus(pipe, "Processing"))

\* const resumeBuffer = await downloadResumeFile(resumeUrl)
ResumeDownload(ok) == ResumeCall("download", ok, pipe)

\* const extractedText = await extractResumeText(resumeBuffer, resumeUrl)
ResumeExtract(ok) == ResumeCall("extract", ok, pipe)

\* await saveResumeContent(applicationId, extractedText)
ResumePersist(ok) == ResumeCall("persist", ok, pipe)

\* await updateResumeExtractionStatus(applicationId, 'Completed', undefined, extractedText)
ResumeSetCompleted(ok) ==
  ResumeCall("setCompleted", ok, updateResumeExtractionStatus(pipe, "Completed"))

\* the activity starts the cover-letter workflow of the application
triggerCoverLetterWorkflow(p) ==
  [startCoverLetterWorkflow(p) EXCEPT !.triggerCalls = @ + 1]

\* await triggerCoverLetterWorkflow(applicationId)
ResumeTrigger(ok) == ResumeCall("trigger", ok, triggerCoverLetterWorkflow(pipe))

\* catch (error): await updateResumeExtractionStatus(applicationId, 'Failed'); throw error.
\* The run fails either way: with the original error, or with the failure of this write
ResumeCatchSetFailed(ok) ==
  /\ pipe.rexec = "running"
  /\ pipe.rpc = "setFailed"
  /\ pipe' = [(IF ok THEN updateResumeExtractionStatus(pipe, "Failed") ELSE pipe)
                EXCEPT !.rsteps = Append(@, "setFailed"), !.rpc = "done", !.rexec = "failed",
                       !.rcatchWrote = ok]
  /\ UNCHANGED lifecycleVars

\* ---------------------------------------------------------------------------
\* CoverLetterGenerationWorkflow
\* ---------------------------------------------------------------------------
CoverSteps == <<"setProcessing", "getData", "getUser", "generate", "upload", "saveUrl",
                "setCompleted", "notifyCompleted">>

NextCoverStep(step) ==
  IF step = "notifyCompleted" THEN "return"
  ELSE CoverSteps[(CHOOSE i \in 1..Len(CoverSteps) : CoverSteps[i] = step) + 1]

\* the notification row created by the activity, counted per type
createCoverLetterNotification(p, type) ==
  IF type = "completed" THEN [p EXCEPT !.nCompleted = @ + 1, !.cwrites = Append(@, "n:completed")]
  ELSE [p EXCEPT !.nFailed = @ + 1, !.cwrites = Append(@, "n:failed")]

\* the coverLetterUrl column of the row receives the blob URL
updateApplicationWithCoverLetter(p) == [p EXCEPT !.coverUrl = TRUE]

\* a status write of the run, recorded in the order of the run's writes
CoverWrite(p, status) == [updateCoverLetterStatus(p, status) EXCEPT !.cwrites = Append(@, status)]

\* an awaited activity of the try block; res is "ok", "fail" (retries exhausted) or,
\* for getApplicationData, "null" (the workflow code throws a plain Error)
CoverCall(step, res, effect) ==
  /\ pipe.cexec = "running"
  /\ pipe.cpc = step
  /\ pipe' = IF res = "ok"
               THEN [effect EXCEPT !.cpc = IF NextCoverStep(step) = "return" THEN "done"
                                           ELSE NextCoverStep(step),
                                   !.cexec = IF NextCoverStep(step) = "return" THEN "completed"
                                             ELSE @]
               ELSE [pipe EXCEPT !.cfailedAt = step, !.cpc = "setFailed",
                                 !.cerr = IF res = "null" THEN "plain" ELSE "activity"]
  /\ UNCHANGED lifecycleVars

\* await updateCoverLetterStatus(applicationId, 'Processing')
CoverSetProcessing(ok) ==
  CoverCall("setProcessing", IF ok THEN "ok" ELSE "fail", CoverWrite(pipe, "Processing"))

\* const application = await getApplicationData(applicationId); if (!application) throw new Error
CoverGetApplicationData(res) == CoverCall("getData", res, pipe)

\* const userInfo = await getUserInfo()
CoverGetUserInfo(ok) == CoverCall("getUser", IF ok THEN "ok" ELSE "fail", pipe)

\* const coverLetter = await generateCoverLetter({...})
CoverGenerate(ok) == CoverCall("generate", IF ok THEN "ok" ELSE "fail", pipe)

\* const blobUrl = await uploadToBlob(coverLetter, filename, 'cover-letters')
CoverUpload(ok) == CoverCall("upload", IF ok THEN "ok" ELSE "fail", pipe)

\* await updateApplicationWithCoverLetter(applicationId, blobUrl)
CoverSaveUrl(ok) ==
  CoverCall("saveUrl", IF ok THEN "ok" ELSE "fail", updateApplicationWithCoverLetter(pipe))

\* await updateCoverLetterStatus(applicationId, 'Completed')
CoverSetCompleted(ok) ==
  CoverCall("setCompleted", IF ok THEN "ok" ELSE "fail", CoverWrite(pipe, "Completed"))

\* await createCoverLetterNotification(applicationId, 'completed'); return blobUrl
CoverNotifyCompleted(ok) ==
  CoverCall("notifyCompleted", IF ok THEN "ok" ELSE "fail",
            createCoverLetterNotification(pipe, "completed"))

\* catch (error): await updateCoverLetterStatus(applicationId, 'Failed');
\* a failure of this write leaves the catch block and fails the run
CoverCatchSetFailed(ok) ==
  /\ pipe.cexec = "running"
  /\ pipe.cpc = "setFailed"
  /\ pipe' = IF ok THEN [CoverWrite(pipe, "Failed") EXCEPT !.cpc = "notifyFailed"]
                   ELSE [pipe EXCEPT !.cpc = "done", !.cexec = "failed"]
  /\ UNCHANGED lifecycleVars

\* await createCoverLetterNotification(applicationId, 'failed'); throw error.
\* An ActivityFailure fails the run; the plain Error of the null check fails the
\* workflow task instead, which the engine retries while the run stays open
CoverCatchNotify(ok) ==
  /\ pipe.cexec = "running"
  /\ pipe.cpc = "notifyFailed"
  /\ pipe' = IF ok /\ pipe.cerr = "plain"
               THEN [createCoverLetterNotification(pipe, "failed") EXCEPT !.cpc = "taskFailing"]
               ELSE [(IF ok THEN createCoverLetterNotification(pipe, "failed") ELSE pipe)
                      EXCEPT !.cpc = "done", !.cexec = "failed"]
  /\ UNCHANGED lifecycleVars

\* workflowRunTimeout: '30m' closes a run whose workflow task keeps failing
CoverRunTimeout ==
  /\ pipe.cexec = "running"
  /\ pipe.cpc = "taskFailing"
  /\ pipe' = [pipe EXCEPT !.cpc = "done", !.cexec = "timedOut"]
  /\ UNCHANGED lifecycleVars

CoverResults == {"ok", "null", "fail"}

\* the creation request with every outcome of its awaited calls, together with
\* the two pipeline workflows it sets off
NextPipe ==
  \/ \E off \in DeadlineOffsets, createOk \in BOOLEAN, startOk \in BOOLEAN,
        setIdOk \in BOOLEAN, hasResume \in BOOLEAN :
          PostApplications(off, createOk, startOk, setIdOk, hasResume)
  \/ \E ok \in BOOLEAN : PostStartResume(ok)
  \/ \E ok \in BOOLEAN : PostMarkProcessing(ok)
  \/ \E ok \in BOOLEAN : PostMarkPending(ok)
  \/ \E ok \in BOOLEAN : PostMarkFailed(ok)
  \/ \E ok \in BOOLEAN : ResumeSetProcessing(ok)
  \/ \E ok \in BOOLEAN : ResumeDownload(ok)
  \/ \E ok \in BOOLEAN : ResumeExtract(ok)
  \/ \E ok \in BOOLEAN : ResumePersist(ok)
  \/ \E ok \in BOOLEAN : ResumeSetCompleted(ok)
  \/ \E ok \in BOOLEAN : ResumeTrigger(ok)
  \/ \E ok \in BOOLEAN : ResumeCatchSetFailed(ok)
  \/ \E ok \in BOOLEAN : CoverSetProcessing(ok)
  \/ \E res \in CoverResults : CoverGetApplicationData(res)
  \/ \E ok \in BOOLEAN : CoverGetUserInfo(ok)
  \/ \E ok \in BOOLEAN : CoverGenerate(ok)
  \/ \E ok \in BOOLEAN : CoverUpload(ok)
  \/ \E ok \in BOOLEAN : CoverSaveUrl(ok)
  \/ \E ok \in BOOLEAN : CoverSetCompleted(ok)
  \/ \E ok \in BOOLEAN : CoverNotifyCompleted(ok)
  \/ \E ok \in BOOLEAN : CoverCatchSetFailed(ok)
  \/ \E ok \in BOOLEAN : CoverCatchNotify(ok)
  \/ CoverRunTimeout

SpecPipe == Init /\ [][NextPipe]_vars

\* ---------------------------------------------------------------------------
\* One activity call under the retry policy of proxyActivities.  Time is
\* counted in seconds here.  The engine runs an attempt; when it fails and
\* attempts are left, the engine waits the retry interval and runs the next
\* one; otherwise the ActivityFailure is thrown into the workflow code.
\* ---------------------------------------------------------------------------
InitialInterval        == 1    \* initialInterval: '1s'
MaximumInterval        == 100  \* maximumInterval: '100s'
BackoffCoefficient     == 2    \* backoffCoefficient: 2
MaximumAttempts        == 3    \* maximumAttempts: 3
maxRetries             == 3    \* generateCoverLetterWithRetry(input, maxRetries = 3)

LifecycleActivities == {"sendDeadlineReminder", "updateApplicationStatus", "archiveApplication"}
RetriedActivities   == LifecycleActivities \cup {"generateCoverLetter"}

RECURSIVE Pow(_, _)
Pow(b, e) == IF e = 0 THEN 1 ELSE b * Pow(b, e - 1)

Min(a, b) == IF a < b THEN a ELSE b

\* engine: the wait after the n-th failed attempt
RetryInterval(n) ==
  Min(InitialInterval * Pow(BackoffCoefficient, n - 1), MaximumInterval)

GenDelayFromOne(attempt) == Pow(2, attempt - 1)

\* const delay = Math.pow(2, attempt) * 1000
GenDelay(attempt) == Pow(2, attempt)

WaitsBeforeRetryAlways(attempt) == attempt <= maxRetries

\* if (attempt < maxRetries): the loop waits only when an attempt is left
WaitsBeforeRetry(attempt) == attempt < maxRetries

\* the workflow code calls an activity: the first attempt starts.  For
\* generateCoverLetter the attempt validates its input and enters the loop
\* of generateCoverLetterWithRetry with attempt = 1
ScheduleActivity(name) ==
  /\ act.phase = "idle"
  /\ act' = [act EXCEPT !.name = name, !.phase = "running", !.attempt = 1,
                        !.gPhase = IF name = "generateCoverLetter" THEN "call" ELSE "none",
                        !.gAttempt = IF name = "generateCoverLetter" THEN 1 ELSE 0]
  /\ UNCHANGED <<now, runs, pc, timerAt, cancelReq, sigQ, hPending, state, row,
                 timeline, notifs, req, pipe, edit, hist>>

AfterFailedAttemptOneMore(a) ==
  IF a.attempt <= MaximumAttempts
    THEN [a EXCEPT !.failures = @ + 1, !.phase = "backoff", !.elapsed = 0,
                   !.gPhase = "none"]
    ELSE [a EXCEPT !.failures = @ + 1, !.phase = "done", !.result = "error",
                   !.gPhase = "none"]

\* the state of the call after an attempt has failed
AfterFailedAttempt(a) ==
  IF a.attempt < MaximumAttempts
    THEN [a EXCEPT !.failures = @ + 1, !.phase = "backoff", !.elapsed = 0,
                   !.gPhase = "none"]
    ELSE [a EXCEPT !.failures = @ + 1, !.phase = "done", !.result = "error",
                   !.gPhase = "none"]

\* an attempt of a lifecycle activity returns: the call is over
AttemptOk ==
  /\ act.phase = "running"
  /\ act.name \in LifecycleActivities
  /\ act' = [act EXCEPT !.phase = "done", !.result = "ok"]
  /\ UNCHANGED <<now, runs, pc, timerAt, cancelReq, sigQ, hPending, state, row,
                 timeline, notifs, req, pipe, edit, hist>>

\* an attempt of a lifecycle activity throws
AttemptFail ==
  /\ act.phase = "running"
  /\ act.name \in LifecycleActivities
  /\ act' = AfterFailedAttempt(act)
  /\ UNCHANGED <<now, runs, pc, timerAt, cancelReq, sigQ, hPending, state, row,
                 timeline, notifs, req, pipe, edit, hist>>

\* one second of the engine's retry interval passes
BackoffTick ==
  /\ act.phase = "backoff"
  /\ act.elapsed < RetryInterval(act.attempt)
  /\ act' = [act EXCEPT !.elapsed = @ + 1]
  /\ UNCHANGED <<now, runs, pc, timerAt, cancelReq, sigQ, hPending, state, row,
                 timeline, notifs, req, pipe, edit, hist>>

\* the retry interval is over: the engine starts the next attempt
RetryAttempt ==
  /\ act.phase = "backoff"
  /\ act.elapsed = RetryInterval(act.attempt)
  /\ act' = [act EXCEPT !.phase = "running", !.attempt = @ + 1, !.elapsed = 0,
                        !.waits = Append(@, act.elapsed),
                        !.gPhase = IF act.name = "generateCoverLetter" THEN "call" ELSE "none",
                        !.gAttempt = IF act.name = "generateCoverLetter" THEN 1 ELSE 0,
                        !.gWaits = <<>>, !.gCallsInAttempt = 0, !.gLastError = 0,
                        !.gWaitAfterLast = FALSE]
  /\ UNCHANGED <<now, runs, pc, timerAt, cancelReq, sigQ, hPending, state, row,
                 timeline, notifs, req, pipe, edit, hist>>

\* CoverLetterService.validateInput rejects: the activity attempt throws
\* before the loop is entered
GenInvalidInput ==
  /\ act.phase = "running"
  /\ act.name = "generateCoverLetter"
  /\ act.gPhase = "call"
  /\ act.gCallsInAttempt = 0
  /\ act' = AfterFailedAttempt(act)
  /\ UNCHANGED <<now, runs, pc, timerAt, cancelReq, sigQ, hPending, state, row,
                 timeline, notifs, req, pipe, edit, hist>>

\* return await this.generateCoverLetter(input): the generator is called
\* once; its result is returned, or its error is kept in lastError and the
\* loop goes on (with a delay when attempt < maxRetries) or ends with
\* throw lastError
GenCall(ok) ==
  /\ act.phase = "running"
  /\ act.name = "generateCoverLetter"
  /\ act.gPhase = "call"
  /\ LET a == [act EXCEPT !.gCalls = @ + 1, !.gCallsInAttempt = @ + 1]
     IN act' =
          IF ok THEN [a EXCEPT !.phase = "done", !.result = "ok", !.gPhase = "none"]
          ELSE IF WaitsBeforeRetry(act.gAttempt)
                 THEN [a EXCEPT !.gLastError = act.gAttempt, !.gPhase = "delay",
                                !.gElapsed = 0,
                                !.gWaitAfterLast = @ \/ act.gAttempt = maxRetries]
               ELSE IF act.gAttempt + 1 <= maxRetries
                 THEN [a EXCEPT !.gLastError = act.gAttempt, !.gAttempt = @ + 1]
               ELSE [AfterFailedAttempt(a) EXCEPT !.gLastError = act.gAttempt,
                                                  !.gThrown = act.gAttempt]
  /\ UNCHANGED <<now, runs, pc, timerAt, cancelReq, sigQ, hPending, state, row,
                 timeline, notifs, req, pipe, edit, hist>>

\* one second of the loop's setTimeout passes
GenDelayTick ==
  /\ act.phase = "running"
  /\ act.gPhase = "delay"
  /\ act.gElapsed < GenDelay(act.gAttempt)
  /\ act' = [act EXCEPT !.gElapsed = @ + 1]
  /\ UNCHANGED <<now, runs, pc, timerAt, cancelReq, sigQ, hPending, state, row,
                 timeline, notifs, req, pipe, edit, hist>>

\* the delay is over: attempt++, and the loop condition attempt <= maxRetries
\* decides between another call and throw lastError
GenDelayDone ==
  /\ act.phase = "running"
  /\ act.gPhase = "delay"
  /\ act.gElapsed = GenDelay(act.gAttempt)
  /\ LET a == [act EXCEPT !.gWaits = Append(@, act.gElapsed), !.gElapsed = 0]
     IN act' = IF act.gAttempt + 1 <= maxRetries
                 THEN [a EXCEPT !.gAttempt = @ + 1, !.gPhase = "call"]
                 ELSE [AfterFailedAttempt(a) EXCEPT !.gThrown = a.gLastError]
  /\ UNCHANGED <<now, runs, pc, timerAt, cancelReq, sigQ, hPending, state, row,
                 timeline, notifs, req, pipe, edit, hist>>

NextRetry ==
  \/ \E name \in RetriedActivities : ScheduleActivity(name)
  \/ AttemptOk
  \/ AttemptFail
  \/ BackoffTick
  \/ RetryAttempt
  \/ GenInvalidInput
  \/ \E ok \in BOOLEAN : GenCall(ok)
  \/ GenDelayTick
  \/ GenDelayDone

SpecRetry == Init /\ [][NextRetry]_vars

\* ---------------------------------------------------------------------------
\* PUT /api/applications/[id] with a new deadline, at a resolution finer than
\* a day: deadlines are counted in parts of a day, DayParts to the day
\* ---------------------------------------------------------------------------
DayParts == 4

\* Math.ceil(a / b) for b > 0
CeilDiv(a, b) == -((-a) \div b)

\* days = Math.ceil((validatedData.deadline.getTime()
\*                   - existingApplication.deadline.getTime()) / (1000 * 60 * 60 * 24))
DaysBetween(oldDeadline, newDeadline) == CeilDiv(newDeadline - oldDeadline, DayParts)

\* the application is created with a deadline and its workflow is started
\* with the same one
EditCreate(deadline) ==
  /\ edit.phase = "none"
  /\ edit' = [edit EXCEPT !.phase = "idle", !.rowDeadline = deadline,
                          !.wfDeadline = deadline]
  /\ UNCHANGED <<now, runs, pc, timerAt, cancelReq, sigQ, hPending, state, row,
                 timeline, notifs, req, pipe, act, hist>>

\* updateApplication writes the new deadline, then extendDeadline(days) is
\* signalled with the rounded difference
EditPut(newDeadline) ==
  /\ edit.phase \in {"idle", "handled"}
  /\ edit.nPuts < MaxPuts
  /\ edit' = [edit EXCEPT !.phase = "signalled", !.rowDeadline = newDeadline,
                          !.days = DaysBetween(edit.rowDeadline, newDeadline),
                          !.equalBefore = (edit.rowDeadline = edit.wfDeadline),
                          !.nPuts = @ + 1]
  /\ UNCHANGED <<now, runs, pc, timerAt, cancelReq, sigQ, hPending, state, row,
                 timeline, notifs, req, pipe, act, hist>>

\* the extendDeadline handler: state.deadline + days * 24h
EditHandled ==
  /\ edit.phase = "signalled"
  /\ edit' = [edit EXCEPT !.phase = "handled",
                          !.wfDeadline = @ + edit.days * DayParts]
  /\ UNCHANGED <<now, runs, pc, timerAt, cancelReq, sigQ, hPending, state, row,
                 timeline, notifs, req, pipe, act, hist>>

NextPut ==
  \/ \E dl \in 0..MaxEdit : EditCreate(dl)
  \/ \E dl \in 0..MaxEdit : EditPut(dl)
  \/ EditHandled

SpecPut == Init /\ [][NextPut]_vars




\* ------------------------------------------------------------ properties
\* the run received no signal, no cancellation, and was neither
\* terminated nor lost
Undisturbed == hist.nReq = 0 /\ hist.nSig = 0 /\ ~hist.disturbed

TimerFired == pc \notin {"none", "init", "sleepDeadline"}

Max(a, b) == IF a >= b THEN a ELSE b

\* C1 (as stated): an updateStatus("Interview") handled while the workflow
\* is Active and waiting for its deadline leaves the state Active after the
\* timer fired and sendDeadlineReminder is never invoked.
C1_InterviewSuppressesReminder ==
  (hist.ivWaiting /\ hist.nReq + hist.nSig = 1 /\ ~hist.disturbed)
    => (state.status = "Active" /\ hist.reminderCalls = 0)

\* C1 (amended): an updateStatus("Interview") handled while the workflow is
\* Active and waiting for its deadline, with no other signal or
\* cancellation, leaves the state Active until the timer fires; when the
\* timer fires the workflow moves to Remind and invokes
\* sendDeadlineReminder exactly once.
C1_InterviewKeepsReminder ==
  (hist.ivWaiting /\ hist.nReq + hist.nSig = 1 /\ ~hist.disturbed)
    => /\ pc = "sleepDeadline" => (state.status = "Active" /\ hist.reminderCalls = 0)
       /\ TimerFired => /\ hist.reminderCalls = 1
                        /\ hist.remindAt = state.originalDeadline
                        /\ state.status \in {"Remind", "GracePeriod", "Archived"}

C1_Witness ==
  /\ hist.ivWaiting /\ hist.nReq + hist.nSig = 1 /\ ~hist.disturbed
  /\ pc = "reminder" /\ state.status = "Remind" /\ state.lastStatusUpdate = "Interview"

\* C2 (as stated): once a terminal updateStatus (Offer, Rejected,
\* Withdrawn) has been handled, the workflow never sets Remind or
\* GracePeriod again, never invokes sendDeadlineReminder and never invokes
\* archiveApplication from the timer path.
C2_TerminalShortCircuit ==
  [][hist.termHandled =>
       /\ (state'.status # state.status => state'.status \notin {"Remind", "GracePeriod"})
       /\ hist'.reminderCalls = hist.reminderCalls
       /\ hist'.archiveCalls = hist.archiveCalls]_vars

\* C3 (as stated): after an extendDeadline handled while the workflow is
\* Active and waiting, the transition to Remind happens no earlier than the
\* extended deadline.
C3_ExtendedDeadlineHonoured ==
  (hist.extWaiting /\ hist.remindAt # NoTime) => hist.remindAt >= hist.deadlineAtRemind

C6_CancelIdempotent ==
  (hist.cancelRepeat /\ wfExec \in {"running", "completed"})
    => /\ state.status = "Archived"
       /\ hist.archiveCalls + hist.catchArchiveCalls <= 1

\* the end-to-end scenario: deadline 10 days after the start, no signals,
\* no activity failure
Scenario10 ==
  /\ Undisturbed /\ ~hist.failed
  /\ hist.startAt # NoTime
  /\ state.originalDeadline = hist.startAt + 10

\* C7 (as stated): in the scenario the state is Active after the start,
\* Remind with exactly one DeadlineReminder once 10 days have elapsed, and
\* Archived with exactly one Archived TimelineEvent once 3 further days
\* have elapsed.
C7_EndToEnd ==
  Scenario10
    => /\ now < hist.startAt + 10 => state.status = "Active"
       /\ (TimerFired /\ now < hist.startAt + 10 + GraceDays)
            => (state.status = "Remind" /\ notifs["DeadlineReminder"] <= 1)
       /\ wfExec = "completed"
            => (state.status = "Archived" /\ timeline["Archived"] = 1)

\* C7 (amended): in the scenario the state is Active until 10 days have
\* elapsed, then Remind while sendDeadlineReminder is in flight and
\* GracePeriod from its completion, which creates exactly one
\* DeadlineReminder; 3 days after that completion the state is Archived,
\* and the completed run has appended exactly one Archived TimelineEvent.
C7_EndToEndGrace ==
  Scenario10
    => /\ pc = "sleepDeadline" => (state.status = "Active" /\ notifs["DeadlineReminder"] = 0)
       /\ now < hist.startAt + 10 => pc = "sleepDeadline"
       /\ pc = "reminder" => /\ state.status = "Remind"
                             /\ hist.remindAt = hist.startAt + 10
                             /\ notifs["DeadlineReminder"] = 0
       /\ pc = "sleepGrace" => /\ state.status = "GracePeriod"
                               /\ notifs["DeadlineReminder"] = 1
                               /\ now <= hist.reminderDoneAt + GraceDays
                               /\ timeline["Archived"] = 0
       /\ pc = "archive" => /\ state.status = "Archived"
                            /\ now = hist.reminderDoneAt + GraceDays
                            /\ timeline["Archived"] = 0
       /\ wfExec = "completed" => /\ state.status = "Archived"
                                  /\ notifs["DeadlineReminder"] = 1
                                  /\ timeline["Archived"] = 1

C7_Witness ==
  /\ Scenario10
  /\ wfExec = "completed"
  /\ now = hist.startAt + 10 + GraceDays
  /\ timeline["Archived"] = 1

\* C8 (as stated): after updateStatus("Rejected") sent right after the
\* creation, before the deadline, there is one TimelineEvent with status
\* Rejected and never a DeadlineReminder.
C8_RejectedOnce ==
  (hist.rejectedEarly /\ hist.nReq + hist.nSig = 1 /\ ~hist.disturbed)
    => (timeline["Rejected"] = 1 /\ notifs["DeadlineReminder"] = 0)

\* C9 (as stated): once the workflow status is Archived, no handler and no
\* step of the main flow changes it.
C9_ArchivedTerminal ==
  [][(wfExec = "running" /\ state.status = "Archived") => state'.status = "Archived"]_vars

\* C10 (as stated): a status or deadline request whose workflow was
\* running at the existence check and is gone when the signal is sent ends
\* with the row's workflowId cleared.
C10_StalePointerCleared ==
  [][(req.kind \in {"status", "put"} /\ req.live /\ req'.kind = "none" /\ ~SignalAccepted)
       => row'.workflowId = NoWorkflowId]_vars

\* C11: a run started with a deadline that is not a well-formed date never
\* gets past the validation: the state object and the handlers are never
\* set up (no signal is ever handled), the status never becomes Active and
\* no activity is invoked, archiveApplication included.
C11_InvalidDeadlineFailsEarly ==
  (hist.nStarts > 0 /\ hist.lastStart = "new" /\ state.originalDeadline \in InvalidDeadlines)
    => /\ ~hist.initialized
       /\ pc \in {"init", "initFailed", "ended"}
       /\ state.status = "Created" /\ ~state.cancelled
       /\ hist.reminderCalls = 0 /\ hist.archiveCalls = 0 /\ hist.catchArchiveCalls = 0
       /\ hPending = <<>>

C11_Witness ==
  /\ state.originalDeadline \in InvalidDeadlines
  /\ pc = "initFailed" /\ wfExec = "running"
  /\ sigQ # <<>>

C13_TerminalEndsRunAtOnce ==
  hist.termHandled => ~(wfExec = "running" /\ pc \in {"sleepDeadline", "sleepGrace"})

\* C14 (as stated): after a cancelWorkflow signal has been handled in a
\* non-Archived state, the workflow never invokes archiveApplication,
\* neither from the timer path nor from anywhere else.
C14_CancelNeverArchives ==
  [][(hist.cancelFresh /\ wfExec = "running")
       => /\ hist'.archiveCalls = hist.archiveCalls
          /\ hist'.catchArchiveCalls = hist.catchArchiveCalls]_vars

\* C14 (amended): the cancelWorkflow handler, run in a non-Archived state,
\* sets cancelled and Archived and calls no activity; from then on the
\* workflow sends no reminder and does not invoke archiveApplication from
\* the timer path, and the next timer that fires ends the run.  Only the
\* failure of the activity of the main flow that was in flight at the
\* cancel makes the catch block invoke archiveApplication, once.
C14_CancelEndsWithoutTimerArchive ==
  [][/\ (~hist.cancelFresh /\ hist'.cancelFresh)
          => /\ state'.cancelled /\ state'.status = "Archived"
             /\ hPending' = hPending /\ pc' = pc
             /\ hist'.reminderCalls = hist.reminderCalls
             /\ hist'.archiveCalls = hist.archiveCalls
             /\ hist'.catchArchiveCalls = hist.catchArchiveCalls
     /\ (hist.cancelFresh /\ wfExec = "running")
          => /\ state'.cancelled
             /\ hist'.reminderCalls = hist.reminderCalls
             /\ hist'.archiveCalls = hist.archiveCalls
             /\ hist'.catchArchiveCalls # hist.catchArchiveCalls
                  => (pc \in {"reminder", "archive"} /\ hist'.catchArchiveCalls = 1)
             /\ (TimerDue /\ pc' # pc /\ hist'.nAdm = hist.nAdm /\ ~cancelReq
                   /\ hist'.failed = hist.failed)
                  => wfExec' = "completed"]_vars

C14_Witness ==
  /\ hist.cancelFresh /\ state.cancelled
  /\ hist.reminderCalls = 1 /\ hist.reminderDoneAt # NoTime
  /\ wfExec = "completed" /\ hist.archiveCalls = 0 /\ ~hist.failed

\* C15 (as stated): once the handler of an updateStatus("Interview") has
\* run to its end while the workflow is in Remind or GracePeriod, and
\* nothing else reaches the run, the grace-period timer does not lead to
\* Archived: archiveApplication is not invoked.
C15_InterviewCancelsGrace ==
  [][(hist.ivLate /\ hist.nReq + hist.nSig = 1 /\ ~hist.disturbed /\ wfExec = "running")
       => /\ hist'.archiveCalls = hist.archiveCalls
          /\ pc' # "archive"]_vars

\* C16 (as stated): updateStatus signals are handled one at a time in
\* delivery order, each handler finishing its updateApplicationStatus call
\* before the next one starts; so once two signals have been mirrored into
\* the row, during the deadline wait, the row holds the status of the
\* signal delivered last.
C16_LastSignalWins ==
  (/\ notifs["StatusUpdate"] = 2 /\ hPending = <<>>
   /\ wfExec = "running" /\ pc = "sleepDeadline" /\ ~hist.disturbed)
    => row.status = state.lastStatusUpdate

\* a step in which a due timer is taken by the main flow
TimerStep ==
  /\ TimerDue /\ pc' # pc
  /\ hist'.nAdm = hist.nAdm /\ ~cancelReq /\ hist'.failed = hist.failed

\* C20: the deadline timer leads to Remind only from status Active, the
\* grace-period timer leads to Archived and archiveApplication only from
\* status GracePeriod; a timer that fires in any other status ends the run
\* with the status left as it is and no activity called.
C20_TransitionsNeedExactStatus ==
  [][/\ (pc = "sleepDeadline" /\ pc' = "reminder") => state.status = "Active"
     /\ (pc = "sleepGrace" /\ pc' = "archive") => state.status = "GracePeriod"
     /\ (TimerStep /\ pc = "sleepDeadline" /\ state.status # "Active")
          => /\ wfExec' = "completed" /\ state' = state
             /\ hist'.reminderCalls = hist.reminderCalls
     /\ (TimerStep /\ pc = "sleepGrace" /\ state.status # "GracePeriod")
          => /\ wfExec' = "completed" /\ state' = state
             /\ hist'.archiveCalls = hist.archiveCalls]_vars

C20_Witness ==
  /\ wfExec = "completed" /\ state.status = "Active" /\ ~state.cancelled
  /\ hist.reminderDoneAt # NoTime /\ hist.archiveCalls = 0

\* C17: a creation request whose row was persisted answers 201 even when the
\* lifecycle start, the recording of its workflowId or the start of the resume
\* extraction failed; when the lifecycle start failed the row's workflowId is null
C17_CreatedDespiteStartFailures ==
  (/\ row.exists
   /\ pipe.post = "done"
   /\ (pipe.lifecycle \in {"startFailed", "setIdFailed"} \/ pipe.routeFailedAt = "startResume"))
  => /\ pipe.response = "201"
     /\ (pipe.lifecycle = "startFailed" => row.workflowId = NoWorkflowId)

\* the steps of the try block that follow the given one
LaterResumeSteps(step) ==
  {ResumeSteps[j] : j \in {k \in 1..Len(ResumeSteps) :
      k > (CHOOSE i \in 1..Len(ResumeSteps) : ResumeSteps[i] = step)}}

\* C18: when download, extract or persist exhausts its retries, the run and the
\* creation request being over, resumeExtractionStatus is Failed, no later step
\* of the pipeline was executed, triggerCoverLetterWorkflow was not called and
\* the pipeline was started once
C18_StepFailureEndsFailed ==
  (/\ pipe.rfailedAt \in {"download", "extract", "persist"}
   /\ pipe.rexec = "failed"
   /\ pipe.post = "done")
  => /\ pipe.resumeStatus = "Failed"
     /\ \A i \in 1..Len(pipe.rsteps) : pipe.rsteps[i] \notin LaterResumeSteps(pipe.rfailedAt)
     /\ pipe.triggerCalls = 0
     /\ pipe.cexec = "none"
     /\ pipe.rstarts = 1

\* a cover-letter run that has terminated
CoverTerminated == pipe.cexec \in {"completed", "failed", "timedOut"}

\* the last status the run wrote
LastCoverWrite ==
  LET w == SelectSeq(pipe.cwrites, LAMBDA x : x \in {"Processing", "Completed", "Failed"})
  IN IF w = <<>> THEN "none" ELSE w[Len(w)]

\* C19: a terminated cover-letter run wrote Processing first and ended either
\* with Completed, the URL on the row and one 'completed' notification, or with
\* Failed and one 'failed' notification; it never wrote Failed after Completed
\* and never emitted both notifications
C19_TwoOutcomes ==
  CoverTerminated =>
    /\ pipe.cwrites # <<>> /\ pipe.cwrites[1] = "Processing"
    /\ \/ /\ LastCoverWrite = "Completed" /\ pipe.coverStatus = "Completed"
          /\ pipe.coverUrl /\ pipe.nCompleted = 1 /\ pipe.nFailed = 0
       \/ /\ LastCoverWrite = "Failed" /\ pipe.coverStatus = "Failed"
          /\ pipe.nFailed = 1 /\ pipe.nCompleted = 0
    /\ \A i, j \in 1..Len(pipe.cwrites) :
         (pipe.cwrites[i] = "Completed" /\ pipe.cwrites[j] = "Failed") => j < i

\* C21: a run that ended failed because an activity (reminder, status mirror
\* or archive) exhausted its retries made exactly one archiveApplication call
\* from its top-level error handler
C21_CatchArchivesOnce ==
  (wfExec = "failed" /\ hist.failed) => hist.catchArchiveCalls = 1

\* what holds of a lifecycle activity call at every moment: at most 3
\* attempts, waits of 1s then 2s between them, the error delivered only after
\* the third failed attempt, a success ending the call at that attempt
RetryContract(a) ==
  a.name \in LifecycleActivities =>
    /\ a.attempt <= 3
    /\ Len(a.waits) <= 2
    /\ \A i \in 1..Len(a.waits) : a.waits[i] = (IF i = 1 THEN 1 ELSE 2)
    /\ (a.phase = "running" => Len(a.waits) = a.attempt - 1)
    /\ (a.result = "error" => a.failures = 3 /\ a.attempt = 3)
    /\ (a.result = "ok" => a.phase = "done" /\ a.attempt = a.failures + 1)

\* C22: every step of a lifecycle activity call keeps the retry contract
\* (at most 3 attempts, waits 1s then 2s, error only after the third failed
\* attempt), and once the call has succeeded or failed no attempt follows
C22_BoundedRetries ==
  [][RetryContract(act') /\ (act.result # "none" => act' = act)]_vars

C22_Witness ==
  /\ act.name \in LifecycleActivities
  /\ act.result = "error"
  /\ act.waits = <<1, 2>>

\* the step in which the extendDeadline handler runs
ExtendStep ==
  /\ wfExec = "running"
  /\ sigQ # <<>>
  /\ Head(sigQ).name = "extendDeadline"
  /\ sigQ' = Tail(sigQ)
  /\ runs' = runs
  /\ pc' = pc

\* C23: the extendDeadline(days) handler sets deadline to its previous value
\* plus days and updatedAt to the current time, leaves status,
\* originalDeadline, gracePeriodEnd, lastStatusUpdate and cancelled alone and
\* invokes no activity; after any number of extensions the deadline is
\* originalDeadline plus the sum of the days
C23_ExtendAddsDays ==
  [][/\ ExtendStep =>
          /\ state'.deadline = state.deadline + Head(sigQ).days
          /\ state'.updatedAt = now
          /\ state'.status = state.status
          /\ state'.originalDeadline = state.originalDeadline
          /\ state'.gracePeriodEnd = state.gracePeriodEnd
          /\ state'.lastStatusUpdate = state.lastStatusUpdate
          /\ state'.cancelled = state.cancelled
          /\ hPending' = hPending
          /\ hist'.reminderCalls = hist.reminderCalls
          /\ hist'.archiveCalls = hist.archiveCalls
          /\ hist'.catchArchiveCalls = hist.catchArchiveCalls
          /\ UNCHANGED <<row, timeline, notifs>>
     /\ (hist'.initialized => state'.deadline = state'.originalDeadline + hist'.extSum)]_vars

\* two extensions have been handled, the second on a later day than the
\* deadline it extends was set
C23_Witness ==
  /\ hist.extSum > ExtendDays
  /\ state.deadline = state.originalDeadline + hist.extSum
  /\ state.updatedAt > hist.startAt

\* the calls the run made in its try block
TrySteps == SelectSeq(pipe.rsteps, LAMBDA x : x # "setFailed")

\* C24: the calls of a ResumeExtractionWorkflow run follow the order
\* Processing, download, extract, persist, Completed, trigger; a run that
\* completed made all six, and the cover-letter workflow was started exactly
\* once, after Completed had been written
C24_SuccessfulRunOrder ==
  LET order == <<"setProcessing", "download", "extract", "persist", "setCompleted", "trigger">>
  IN /\ Len(TrySteps) <= 6
     /\ \A i \in 1..Len(TrySteps) : TrySteps[i] = order[i]
     /\ (pipe.cstarts > 0 =>
           \E i \in 1..Len(TrySteps) : TrySteps[i] = "setCompleted")
     /\ (pipe.rexec = "completed" =>
           /\ TrySteps = order
           /\ pipe.rfailedAt = "none"
           /\ pipe.triggerCalls = 1
           /\ pipe.cstarts = 1)

C24_Witness ==
  /\ pipe.rexec = "completed"
  /\ pipe.cexec = "completed"
  /\ pipe.resumeStatus = "Completed"

\* C25: within one activity attempt generateCoverLetterWithRetry calls the
\* generator at most 3 times, waits 2s then 4s between calls and never after
\* the last one, returns at the first successful call and otherwise throws
\* the error of the last call; over the engine's at most 3 attempts one
\* generateCoverLetter call makes at most 9 generator calls
C25_GeneratorCallsBounded ==
  act.name = "generateCoverLetter" =>
    /\ act.gCallsInAttempt <= 3
    /\ Len(act.gWaits) <= 2
    /\ \A i \in 1..Len(act.gWaits) : act.gWaits[i] = (IF i = 1 THEN 2 ELSE 4)
    /\ (act.gPhase = "call" => Len(act.gWaits) = act.gCallsInAttempt)
    /\ ~act.gWaitAfterLast
    /\ (act.gThrown # 0 => act.gThrown = 3)
    /\ (act.result = "ok" => act.gLastError = act.gCallsInAttempt - 1)
    /\ act.attempt <= 3
    /\ act.gCalls <= 9
    /\ (act.result = "error" => act.attempt = 3)

C25_Witness ==
  /\ act.name = "generateCoverLetter"
  /\ act.result = "error"
  /\ act.gCalls = 9
  /\ act.gWaits = <<2, 4>>

\* C26: one accepted status request for an application whose workflow is
\* running, the signal handled and its status-mirror activity completed,
\* leaves exactly one TimelineEvent of the new status
C26_OneEventPerRequest ==
  (/\ hist.nReq = 1 /\ hist.nSig = 0 /\ hist.nAdm = 0
   /\ req.kind = "none" /\ sigQ = <<>> /\ hPending = <<>>
   /\ notifs["StatusUpdate"] = 1
   /\ state.lastStatusUpdate = "Interview")
  => timeline["Interview"] = 1

\* C27: after a PUT that changes the deadline and the handling of its
\* extendDeadline signal, the workflow's deadline equals the row's new
\* deadline, whatever the two deadlines are, provided the two were equal
\* before the request
C27_WorkflowFollowsRow ==
  (edit.phase = "handled" /\ edit.equalBefore) => edit.wfDeadline = edit.rowDeadline

\* a step of the creation request (one of its awaited calls returns)
ControllerStep == pipe'.post # pipe.post

\* C28: no status write of the controller takes resumeExtractionStatus from
\* Completed or Failed back to Processing, nor coverLetterGenerationStatus
\* from Processing, Completed or Failed back to Pending
C28_ControllerKeepsProgress ==
  [][ControllerStep =>
       /\ ~(pipe.resumeStatus \in {"Completed", "Failed"} /\ pipe'.resumeStatus = "Processing")
       /\ ~(pipe.coverStatus \in {"Processing", "Completed", "Failed"}
            /\ pipe'.coverStatus = "Pending")]_vars

\* the row statuses after which the application needs no reminder and no
\* archiving
ClosedRowStatuses == {"Offer", "Rejected", "Withdrawn", "Archived"}

\* C29: the workflow invokes sendDeadlineReminder, and archiveApplication
\* from its timer path, only for an application whose row status is not
\* Offer, Rejected, Withdrawn or Archived at that moment
C29_NoReminderForClosedRow ==
  [][(\/ hist'.reminderCalls > hist.reminderCalls
      \/ hist'.archiveCalls > hist.archiveCalls)
     => row.status \notin ClosedRowStatuses]_vars

\* C30: a ResumeExtractionWorkflow run that wrote Completed does not write
\* Failed afterwards, whatever becomes of the trigger step; and a run that
\* ended in error has written Failed as its last status
C30_CompletedStaysCompleted ==
  /\ ~(pipe.rfailedAt = "trigger" /\ pipe.rcatchWrote)
  /\ (pipe.rexec = "failed" => pipe.rcatchWrote)

====
